---- MODULE Spec2Model ----
(***************************************************************************)
(* Model of gaitQ/wifi-connect: the connectivity loop of the start script  *)
(* (start-wifi-connect.sh and the variant embedded after the Dockerfile),  *)
(* the wifi-connect session it runs, and the NetworkInfoForm component of  *)
(* the captive-portal UI.                                                  *)
(*                                                                         *)
(*   Spec      the start script and the wifi-connect session               *)
(*   FairSpec  the same, with the fairness a running shell and a running   *)
(*             wifi-connect process provide (the user is never forced)     *)
(*   FormSpec  the NetworkInfoForm component                               *)
(***************************************************************************)
EXTENDS Integers, Sequences, FiniteSets

(***************************************************************************)
(* Bounds of the model.                                                    *)
(***************************************************************************)
\* submissions posted by the browser and not yet handled by the session
MaxInFlight == 2
\* length of the network list handed to the form
MaxNetworks == 2

(***************************************************************************)
(* Program constants.                                                      *)
(***************************************************************************)
\* start-wifi-connect.sh: sleep 10
SleepSh == 10
\* Dockerfile variant: sleep 60
SleepDocker == 60

Scripts == {"start-wifi-connect.sh", "Dockerfile"}

\* exit statuses of `wget --spider`: 0 success, 1 generic error, 4 network
\* failure (DNS, refused, timeout), 8 error response from the server
WgetCodes == {0, 1, 4, 8}

NoError == "none"
JoinErrors == {"JoinCredentialInvalid", "JoinTimeout", "JoinAssociationFailure"}
StartErrors == {"ScanFailure", "AccessPointStartFailure"}

VARIABLES
    \* ---- the start script
    script,      \* which of the two variants of the script runs
    pc,          \* position of the shell in the loop body
    rc,          \* $? after check_internet
    success,     \* the variable `success` of the Dockerfile variant
    running,     \* number of wifi-connect processes alive
    \* ---- the wifi-connect session
    state,       \* SessionState, "None" when no session exists
    ap,          \* the access point (and its web server) is up
    lastError,   \* PortalSession.lastError
    inFlight,    \* submissions posted and not yet handled
    response,    \* answer to the submission handled last
    \* ---- observations of the current loop iteration
    probed,      \* a probe has been made
    starts,      \* sessions started since the last probe
    sessionRan,  \* a session ran and exited since the last probe
    exitCode,    \* its exit status
    slept,       \* seconds slept since the last probe
    userInput,   \* the user has submitted or reloaded in the current session
    \* ---- the NetworkInfoForm component
    availableNetworks,  \* prop availableNetworks
    data,               \* React state `data`
    schema,             \* prop schema handed to <Form> by the last render
    uiSchema,           \* prop uiSchema handed to <Form> by the last render
    submitDisabled,     \* submitButtonProps.disabled of the last render
    outcome,            \* what the last click on Connect did
    onSubmitArg         \* argument of the onSubmit call it made

loopVars == <<script, pc, rc, success, running>>
sessionVars == <<state, ap, lastError, inFlight, response>>
obsVars == <<probed, starts, sessionRan, exitCode, slept, userInput>>
formVars == <<availableNetworks, data, schema, uiSchema, submitDisabled,
              outcome, onSubmitArg>>
vars == <<loopVars, sessionVars, obsVars, formVars>>

(***************************************************************************)
(* NetworkInfoForm.tsx                                                     *)
(***************************************************************************)
\* a field of NetworkInfo that is not set
Undefined == "<undefined>"

SSIDs == {"Home", "Corp"}
Securities == {"open", "personal", "enterprise"}
Networks == [ssid : SSIDs, security : Securities]
NetworkLists == UNION {[1..n -> Networks] : n \in 0..MaxNetworks}

TextValues == {"", "text"}
FormDatas == [ssid : SSIDs \cup {Undefined},
              identity : TextValues \cup {Undefined},
              passphrase : TextValues \cup {Undefined}]

\* React.useState<NetworkInfo>({})
EmptyData == [ssid |-> Undefined, identity |-> Undefined, passphrase |-> Undefined]

\* getSchema: the parts of the JSON schema that depend on the list or that
\* validation reads
getSchema(networks) ==
    [ssidDefault |-> IF Len(networks) > 0 THEN networks[1].ssid ELSE Undefined,
     ssidOneOf |-> [i \in 1..Len(networks) |-> networks[i].ssid],
     identityDefault |-> "",
     passphraseDefault |-> "",
     required |-> {"ssid"}]

\* getUiSchema: 'ui:widget' of identity and of passphrase
getUiSchema(isEnterprise) ==
    [identityWidget |-> IF ~isEnterprise THEN "hidden" ELSE Undefined,
     passphraseWidget |-> "password"]

\* a plausible slip: look the selected ssid up with find() and test the
\* security of the first entry of that name only
isEnterpriseNetworkFirstMatch(networks, selectedNetworkSsid) ==
    LET hits == {i \in 1..Len(networks) : networks[i].ssid = selectedNetworkSsid}
    IN  /\ hits # {}
        /\ networks[CHOOSE i \in hits : \A j \in hits : i <= j].security = "enterprise"

\* isEnterpriseNetwork: networks.some(ssid === selected && security === 'enterprise')
isEnterpriseNetwork(networks, selectedNetworkSsid) ==
    \E i \in 1..Len(networks) :
        /\ networks[i].ssid = selectedNetworkSsid
        /\ networks[i].security = "enterprise"

\* submitButtonProps.disabled
SubmitButtonDisabled(networks) == Len(networks) <= 0

\* the form data the Form holds for `value`: a field that is not set takes the
\* default of the schema
WithDefaults(sch, d) ==
    [ssid |-> IF d.ssid = Undefined THEN sch.ssidDefault ELSE d.ssid,
     identity |-> IF d.identity = Undefined THEN sch.identityDefault ELSE d.identity,
     passphrase |-> IF d.passphrase = Undefined THEN sch.passphraseDefault
                    ELSE d.passphrase]

\* a plausible slip: the ssid property without its oneOf
ValidSsidAnyString(sch, ssid) == TRUE

\* the ssid property: type string, oneOf the listed constants (JSON schema
\* oneOf: exactly one alternative matches)
ValidSsid(sch, ssid) ==
    Cardinality({i \in DOMAIN sch.ssidOneOf : sch.ssidOneOf[i] = ssid}) = 1

\* validation of the form data against the schema: required lists ssid only;
\* identity and passphrase are strings when present
Validate(sch, fd) ==
    /\ \A f \in sch.required : fd[f] # Undefined
    /\ fd.ssid # Undefined => ValidSsid(sch, fd.ssid)
    /\ fd.identity # Undefined => fd.identity \in TextValues
    /\ fd.passphrase # Undefined => fd.passphrase \in TextValues

\* the props one render of NetworkInfoForm hands to <Form>
Rendered(networks, d) ==
    /\ schema' = getSchema(networks)
    /\ uiSchema' = getUiSchema(isEnterpriseNetwork(networks, d.ssid))
    /\ submitDisabled' = SubmitButtonDisabled(networks)

FormInit ==
    /\ availableNetworks \in NetworkLists
    /\ data = EmptyData
    /\ schema = getSchema(availableNetworks)
    /\ uiSchema = getUiSchema(isEnterpriseNetwork(availableNetworks, data.ssid))
    /\ submitDisabled = SubmitButtonDisabled(availableNetworks)
    /\ outcome = "none"
    /\ onSubmitArg = <<>>

\* onFormChange: the user edits a field; the select of ssid offers the
\* constants of oneOf (or nothing), the text fields are free
onFormChange ==
    \E formData \in FormDatas :
        /\ formData # data
        /\ formData.ssid \in {Undefined, data.ssid}
               \cup {schema.ssidOneOf[i] : i \in DOMAIN schema.ssidOneOf}
        /\ data' = formData
        /\ Rendered(availableNetworks, formData)
        /\ outcome' = "none"
        /\ onSubmitArg' = <<>>
        /\ UNCHANGED <<availableNetworks, loopVars, sessionVars, obsVars>>

\* the parent renders the component with another list
ReplaceNetworks ==
    \E networks \in NetworkLists :
        /\ networks # availableNetworks
        /\ availableNetworks' = networks
        /\ Rendered(networks, data)
        /\ outcome' = "none"
        /\ onSubmitArg' = <<>>
        /\ UNCHANGED <<data, loopVars, sessionVars, obsVars>>

\* a click on Connect: nothing when the button is disabled; otherwise the
\* form data is validated and onFormSubmit calls onSubmit(formData)
onFormSubmit ==
    LET formData == WithDefaults(schema, data)
    IN  /\ outcome' = IF submitDisabled THEN "disabled"
                      ELSE IF Validate(schema, formData) THEN "submitted"
                      ELSE "rejected"
        /\ onSubmitArg' = IF outcome' = "submitted" THEN <<formData>> ELSE <<>>
        /\ UNCHANGED <<availableNetworks, data, schema, uiSchema, submitDisabled,
                       loopVars, sessionVars, obsVars>>

(***************************************************************************)
(* The start script: start-wifi-connect.sh, and the variant after the      *)
(* Dockerfile, which records wifi-connect's exit status in `success`.      *)
(***************************************************************************)
\* check_internet: wget --spider ...; return $?
check_internet(wgetStatus) == wgetStatus

\* a plausible slip: only a network failure of wget counts as offline
IsOnlineUnlessNetworkFailure(status) == status # 4

\* [ $? -eq 0 ]
IsOnline(status) == status = 0

\* the session a fresh wifi-connect process starts with: nothing scanned, no
\* access point yet, no error, no input of the user
SessionStarts ==
    /\ state' = "Scanning"
    /\ ap' = FALSE
    /\ lastError' = NoError
    /\ inFlight' = 0
    /\ response' = "none"
    /\ userInput' = FALSE

\* check_internet, first statement of the loop body
CheckInternet ==
    /\ pc = "check_internet"
    /\ \E wgetStatus \in WgetCodes : rc' = check_internet(wgetStatus)
    /\ pc' = "if"
    /\ probed' = TRUE
    /\ starts' = 0
    /\ sessionRan' = FALSE
    /\ exitCode' = 0
    /\ slept' = 0
    /\ UNCHANGED <<script, success, running, sessionVars, userInput, formVars>>

\* then-branch: 'Internet connection is available. Skipping WiFi Connect.'
SkipWifiConnect ==
    /\ pc = "if"
    /\ IsOnline(rc)
    /\ success' = IF script = "Dockerfile" THEN 0 ELSE success
    /\ pc' = "sleep"
    /\ UNCHANGED <<script, rc, running, sessionVars, obsVars, formVars>>

\* a plausible slip: wifi-connect started in the background (a trailing &),
\* so that the shell goes on while the session runs
StartWifiConnectInBackground ==
    /\ pc = "if"
    /\ ~IsOnline(rc)
    /\ running' = running + 1
    /\ SessionStarts
    /\ starts' = starts + 1
    /\ pc' = "sleep"
    /\ UNCHANGED <<script, rc, success, probed, sessionRan, exitCode, slept,
                   formVars>>

\* else-branch: ./wifi-connect --portal-ssid $(hostname), a foreground
\* command: the shell stays on this line until the process exits
StartWifiConnect ==
    /\ pc = "if"
    /\ ~IsOnline(rc)
    /\ running' = running + 1
    /\ SessionStarts
    /\ starts' = starts + 1
    /\ pc' = "wifi-connect"
    /\ UNCHANGED <<script, rc, success, probed, sessionRan, exitCode, slept,
                   formVars>>

\* seconds slept at the end of the loop body: sleep 10 in
\* start-wifi-connect.sh; in the Dockerfile variant sleep 60, and only
\* if [ $success -eq 0 ]
SleepSeconds ==
    IF script = "start-wifi-connect.sh" THEN SleepSh
    ELSE IF success = 0 THEN SleepDocker ELSE 0

\* end of the loop body
Sleep ==
    /\ pc = "sleep"
    /\ slept' = SleepSeconds
    /\ pc' = "check_internet"
    /\ UNCHANGED <<script, rc, success, running, sessionVars, probed, starts,
                   sessionRan, exitCode, userInput, formVars>>

(***************************************************************************)
(* The wifi-connect session the script runs. The program is not among the  *)
(* sources; its steps follow the session state machine of the design, and  *)
(* what the sources say of it: the notices of the UI (the access point is  *)
(* down while a connection is attempted and comes back when it failed) and *)
(* the README (one scan before the access point starts; no timeout).       *)
(***************************************************************************)
\* exit status of wifi-connect: 0 after a connection, non-zero after a failure
ExitStatus(s) == IF s = "Succeeded" THEN 0 ELSE 1

\* a plausible slip: the access point is not raised again after a failed
\* connection
AccessPointAfterFailedConnectStaysDown == FALSE

\* 'If connection is unsuccessful, the Access Point will be back up in a few
\* seconds': the access point is down while the connection is attempted ...
AccessPointWhileApplying == FALSE

\* ... and up again after an unsuccessful attempt
AccessPointAfterFailedConnect == TRUE

\* Scanning: the networks are scanned once, then the access point and the
\* web server come up
ScanSucceeds ==
    /\ running > 0
    /\ state = "Scanning"
    /\ ap' = TRUE
    /\ state' = "AwaitingSubmission"
    /\ UNCHANGED <<loopVars, lastError, inFlight, response, obsVars, formVars>>

\* Scanning: the scan or the start of the access point fails
StartFails ==
    /\ running > 0
    /\ state = "Scanning"
    /\ \E e \in StartErrors : lastError' = e
    /\ ap' = FALSE
    /\ state' = "Failed"
    /\ UNCHANGED <<loopVars, inFlight, response, obsVars, formVars>>

\* onFormSubmit of the form served by the access point: onSubmit(formData)
\* posts a submission to the session
UserSubmits ==
    /\ running > 0
    /\ ap
    /\ inFlight < MaxInFlight
    /\ inFlight' = inFlight + 1
    /\ userInput' = TRUE
    /\ UNCHANGED <<loopVars, state, ap, lastError, response, probed, starts,
                   sessionRan, exitCode, slept, formVars>>

\* 'Reload WiFi network list': the session scans again; the access point
\* 'will be back up in a few seconds'
UserReloads ==
    /\ running > 0
    /\ ap
    /\ state = "AwaitingSubmission"
    /\ state' = "Scanning"
    /\ ap' = FALSE
    /\ userInput' = TRUE
    /\ UNCHANGED <<loopVars, lastError, inFlight, response, probed, starts,
                   sessionRan, exitCode, slept, formVars>>

\* a plausible slip: a submission is applied in whatever state it arrives
HandleSubmissionInAnyState ==
    /\ running > 0
    /\ inFlight > 0
    /\ inFlight' = inFlight - 1
    /\ state' = "Applying"
    /\ ap' = AccessPointWhileApplying
    /\ response' = "Accepted"
    /\ UNCHANGED <<loopVars, lastError, obsVars, formVars>>

\* the session takes a posted submission: accepted in AwaitingSubmission,
\* SubmissionRejected in every other state
HandleSubmission ==
    /\ running > 0
    /\ inFlight > 0
    /\ inFlight' = inFlight - 1
    /\ IF state = "AwaitingSubmission"
       THEN /\ state' = "Applying"
            /\ ap' = AccessPointWhileApplying
            /\ response' = "Accepted"
            /\ UNCHANGED lastError
       ELSE /\ response' = "SubmissionRejected"
            /\ UNCHANGED <<state, ap, lastError>>
    /\ UNCHANGED <<loopVars, obsVars, formVars>>

\* Applying: the device joined the network
JoinSucceeds ==
    /\ running > 0
    /\ state = "Applying"
    /\ state' = "Succeeded"
    /\ UNCHANGED <<loopVars, ap, lastError, inFlight, response, obsVars, formVars>>

\* Applying: the connection was unsuccessful; the access point comes back
\* and the user can try again
JoinFails ==
    /\ running > 0
    /\ state = "Applying"
    /\ \E e \in JoinErrors : lastError' = e
    /\ ap' = AccessPointAfterFailedConnect
    /\ state' = "AwaitingSubmission"
    /\ UNCHANGED <<loopVars, inFlight, response, obsVars, formVars>>

\* Succeeded / Failed: the access point is torn down and the process exits;
\* the shell, which waits on the line of wifi-connect, goes on (the
\* Dockerfile variant with success=$?)
SessionExit ==
    /\ pc = "wifi-connect"
    /\ running > 0
    /\ state \in {"Succeeded", "Failed"}
    /\ running' = running - 1
    /\ exitCode' = ExitStatus(state)
    /\ sessionRan' = TRUE
    /\ success' = IF script = "Dockerfile" THEN ExitStatus(state) ELSE success
    /\ pc' = "sleep"
    /\ state' = "None"
    /\ ap' = FALSE
    /\ lastError' = NoError
    /\ inFlight' = 0
    /\ UNCHANGED <<script, rc, response, probed, starts, slept, userInput, formVars>>

(***************************************************************************)
(* Specifications                                                          *)
(***************************************************************************)
LoopInit ==
    /\ pc = "check_internet"
    /\ rc = 0
    /\ success = 0
    /\ running = 0
    /\ state = "None"
    /\ ap = FALSE
    /\ lastError = NoError
    /\ inFlight = 0
    /\ response = "none"
    /\ probed = FALSE
    /\ starts = 0
    /\ sessionRan = FALSE
    /\ exitCode = 0
    /\ slept = 0
    /\ userInput = FALSE

\* the form before the page is served: no list, nothing entered
FormIdle ==
    /\ availableNetworks = <<>>
    /\ data = EmptyData
    /\ schema = getSchema(<<>>)
    /\ uiSchema = getUiSchema(FALSE)
    /\ submitDisabled = TRUE
    /\ outcome = "none"
    /\ onSubmitArg = <<>>

Init ==
    /\ script \in Scripts
    /\ LoopInit
    /\ FormIdle

Next ==
    \/ CheckInternet
    \/ SkipWifiConnect
    \/ StartWifiConnect
    \/ Sleep
    \/ ScanSucceeds
    \/ StartFails
    \/ UserSubmits
    \/ UserReloads
    \/ HandleSubmission
    \/ JoinSucceeds
    \/ JoinFails
    \/ SessionExit

Spec == Init /\ [][Next]_vars

\* a running shell takes its next step and a running wifi-connect process
\* its next; nothing makes the user submit or reload
FairSpec ==
    /\ Init
    /\ [][Next]_vars
    /\ WF_vars(CheckInternet)
    /\ WF_vars(SkipWifiConnect)
    /\ WF_vars(StartWifiConnect)
    /\ WF_vars(Sleep)
    /\ WF_vars(ScanSucceeds \/ StartFails)
    /\ WF_vars(HandleSubmission)
    /\ WF_vars(JoinSucceeds \/ JoinFails)
    /\ WF_vars(SessionExit)

FormSpecInit ==
    /\ script = "start-wifi-connect.sh"
    /\ LoopInit
    /\ FormInit

FormNext ==
    \/ onFormChange
    \/ ReplaceNetworks
    \/ onFormSubmit

FormSpec == FormSpecInit /\ [][FormNext]_vars

(***************************************************************************)
(* Properties of the start script and the session (Spec, FairSpec)         *)
(***************************************************************************)

\* C1: at most one wifi-connect session is active at any time, and while a
\* session has not exited the shell is on the line that runs it: it makes no
\* probe and starts no other session.
C1_AtMostOneSession ==
    /\ running <= 1
    /\ running > 0 => pc = "wifi-connect"
    /\ pc = "wifi-connect" => running = 1

\* C1 witness: a session is active, its access point up, and the shell waits
C1_SessionActive ==
    /\ running = 1
    /\ state = "AwaitingSubmission"
    /\ ap
    /\ pc = "wifi-connect"

\* C2: in every iteration a session is started if and only if the probe of
\* that iteration reported offline (a non-zero status of check_internet):
\* none after an online probe, exactly one after an offline probe, counted
\* from the probe up to the next probe.
C2_SessionIffOffline ==
    /\ starts <= 1
    /\ (probed /\ rc = 0) => starts = 0
    /\ (probed /\ pc \in {"wifi-connect", "sleep", "check_internet"})
           => starts = (IF rc = 0 THEN 0 ELSE 1)

\* C2 witness: an iteration whose probe got an error response (wget status 8)
\* ends, one session started and exited, and the next probe is due
C2_OfflineIterationDone ==
    /\ pc = "check_internet"
    /\ probed
    /\ rc = 8
    /\ starts = 1
    /\ sessionRan

\* C3 (as claimed): a session that is started and gets no input of the user
\* (no submission is ever received) eventually ends, and the loop reaches its
\* next probe.
C3_SessionWithoutInputEnds ==
    (pc = "wifi-connect" /\ ~userInput) ~> (pc = "check_internet" \/ userInput)

\* C4: a submission handled while the session is not in AwaitingSubmission is
\* answered SubmissionRejected and changes nothing of the session; and a
\* submission is only ever posted through the form the access point serves.
C4_LateSubmissionRejected ==
    [][/\ (inFlight' = inFlight - 1 /\ running' = running
               /\ state # "AwaitingSubmission")
           => /\ response' = "SubmissionRejected"
              /\ state' = state
              /\ ap' = ap
              /\ lastError' = lastError
       /\ inFlight' > inFlight => (ap /\ running > 0 /\ inFlight' = inFlight + 1)
      ]_vars

\* C4 witness: a second submission arrived while the first was being applied
\* and was rejected
C4_RejectedWhileApplying ==
    /\ state = "Applying"
    /\ response = "SubmissionRejected"

\* C7 (as claimed): after a session that exited with a non-zero status the
\* loop has slept before it makes its next probe.
C7_BackoffAfterFailedSession ==
    (pc = "check_internet" /\ sessionRan /\ exitCode # 0) => slept > 0

\* the step that ends an unsuccessful connection attempt
JoinAttemptFailed ==
    /\ state = "Applying"
    /\ state' \notin {"Applying", "Succeeded"}

SubmittedData == WithDefaults(schema, data)

\* the click on Connect reached validation
Clicked == outcome \in {"submitted", "rejected"}

\* security of the network the user selected (data.ssid), when the list has
\* one entry of that name
SelectedSecurity ==
    LET hits == {i \in DOMAIN availableNetworks :
                     availableNetworks[i].ssid = data.ssid}
    IN  IF Cardinality(hits) = 1
        THEN availableNetworks[CHOOSE i \in hits : TRUE].security
        ELSE "none"

ListedSsids == {availableNetworks[i].ssid : i \in DOMAIN availableNetworks}

\* C5 (as claimed): with an enterprise network selected, a submission whose
\* identity is missing or empty is rejected; with an open network selected,
\* a submission without passphrase is accepted.
C5_EnterpriseNeedsIdentity ==
    Clicked =>
        /\ (SelectedSecurity = "enterprise" /\ SubmittedData.identity = "")
               => outcome = "rejected"
        /\ (SelectedSecurity = "open" /\ SubmittedData.passphrase = "")
               => outcome = "submitted"

\* C6 (as claimed): a passphrase is required exactly when the selected
\* network is not open: with a personal or enterprise network selected, a
\* submission whose passphrase is missing or empty never reaches onSubmit.
C6_PassphraseNeededUnlessOpen ==
    /\ (outcome = "submitted" /\ SelectedSecurity \in {"personal", "enterprise"})
           => onSubmitArg[1].passphrase \notin {"", Undefined}
    /\ (Clicked /\ SelectedSecurity = "open") => outcome = "submitted"

C10_IdentityShownIffEnterprise ==
    (uiSchema.identityWidget # "hidden")
        <=> ([ssid |-> data.ssid, security |-> "enterprise"]
                 \in {availableNetworks[i] : i \in DOMAIN availableNetworks})

\* C10 witness: two entries of the selected name, the first personal and the
\* second enterprise; the field is shown
C10_MixedSecurityShown ==
    /\ Len(availableNetworks) = 2
    /\ availableNetworks[1] = [ssid |-> "Corp", security |-> "personal"]
    /\ availableNetworks[2] = [ssid |-> "Corp", security |-> "enterprise"]
    /\ data.ssid = "Corp"
    /\ uiSchema.identityWidget # "hidden"

====
